---- MODULE Spec2Model ----
(***************************************************************************)
(* A model of the CRM backend: the GraphQL mutations of crm/schema.py over *)
(* the Customer / Product / Order tables, and the scheduled jobs of        *)
(* crm/cron.py, crm/tasks.py and crm/cron_jobs/send_order_reminders.py.    *)
(*                                                                         *)
(* A table is a sequence of rows; a row's primary key is its index.  A     *)
(* string the code inspects character by character (a phone number) is a   *)
(* sequence of one-character strings.                                      *)
(***************************************************************************)
EXTENDS Integers, Sequences, FiniteSets, TLC

VARIABLES
    customers,   \* the Customer table: rows [name, email, phone]
    products,    \* the Product table: rows [name, price, stock]
    orders,      \* the Order table: rows [customer, total_amount, products]
    request,     \* the mutation call handled last: [op, ...arguments]
    response,    \* what that call returned or raised
    logs,        \* log file path -> the lines appended so far
    job,         \* the scheduled job run last and how it ended
    pc,          \* concurrent requests: where each one stands in its handler
    local        \* concurrent requests: the handler's local variables

vars == <<customers, products, orders, request, response, logs, job, pc, local>>

storeVars == <<customers, products, orders>>
jobVars == <<logs, job>>
procVars == <<pc, local>>

----------------------------------------------------------------------------
(* Bounds of the model. *)

MaxBulk == 3        \* longest input list given to BulkCreateCustomers
MaxProducts == 2    \* most rows of the Product table
MaxOrders == 1      \* most rows of the Order table
MaxLines == 3       \* most lines in the log files together

----------------------------------------------------------------------------
(* Inputs. *)

\* no call handled yet; no job run yet
NoRequest == [op |-> "none"]
NoJob == [name |-> "none", failed |-> FALSE, raised |-> FALSE]

Names == {"Ann"}
Emails == {"a@x.io", "b@x.io"}

\* phone=None: the optional argument was not given
None == [given |-> FALSE, text |-> <<>>]
Str(chars) == [given |-> TRUE, text |-> chars]

PhoneIntl == Str(<<"+", "1", "5", "5", "5", "1", "2", "3", "4", "5", "6", "7">>)
PhoneLocal == Str(<<"5", "5", "5", "-", "1", "2", "3", "-", "4", "5", "6", "7">>)
PhoneAbc == Str(<<"a", "b", "c", "1", "2", "3">>)
PhoneShort == Str(<<"+", "1", "2", "3">>)
PhoneEmpty == Str(<<>>)

Phones == {None, PhoneIntl, PhoneLocal, PhoneAbc, PhoneShort, PhoneEmpty}

\* the rows a BulkCreateCustomers input list is drawn from
BulkRows ==
    { [name |-> "Bob", email |-> "a@x.io", phone |-> None],
      [name |-> "Bob", email |-> "b@x.io", phone |-> None],
      [name |-> "Bob", email |-> "b@x.io", phone |-> PhoneAbc] }

SeqsUpTo(S, n) == UNION {[1..k -> S] : k \in 0..n}

----------------------------------------------------------------------------
(* re.match(r"^(\+\d{10,15}|\d{3}-\d{3}-\d{4})$", phone) *)

MinIntlDigits == 10
MaxIntlDigits == 15
AreaDigits == 3
LineDigits == 4

IsDigit(c) == c \in {"0", "1", "2", "3", "4", "5", "6", "7", "8", "9"}

AllDigits(s, from, to) == \A i \in from..to : IsDigit(s[i])

\* \+\d{10,15} over the whole of s
MatchIntl(s) ==
    /\ Len(s) >= 1 + MinIntlDigits
    /\ Len(s) <= 1 + MaxIntlDigits
    /\ s[1] = "+"
    /\ AllDigits(s, 2, Len(s))

\* \d{3}-\d{3}-\d{4} over the whole of s
MatchLocal(s) ==
    /\ Len(s) = AreaDigits + 1 + AreaDigits + 1 + LineDigits
    /\ AllDigits(s, 1, AreaDigits)
    /\ s[AreaDigits + 1] = "-"
    /\ AllDigits(s, AreaDigits + 2, 2 * AreaDigits + 1)
    /\ s[2 * AreaDigits + 2] = "-"
    /\ AllDigits(s, 2 * AreaDigits + 3, Len(s))

MatchBody(s) == MatchIntl(s) \/ MatchLocal(s)

\* "$" matches at the end of the string and also just before a newline that
\* ends the string
PhoneMatch(s) ==
    \/ MatchBody(s)
    \/ /\ Len(s) > 0
       /\ s[Len(s)] = "\n"
       /\ MatchBody(SubSeq(s, 1, Len(s) - 1))

\* Python truthiness of the phone argument: None and "" are falsy
Truthy(phone) == phone.given /\ phone.text # <<>>

\* the condition of schema.py line 52
PhoneRejected(phone) == Truthy(phone) /\ ~PhoneMatch(phone.text)

----------------------------------------------------------------------------
(* ORM queries on the Customer table. *)

\* Customer.objects.filter(email=email).exists()
EmailExists(table, email) == \E i \in DOMAIN table : table[i].email = email

\* a variant that overwrites the row holding the email, as update_or_create
\* would
SaveCustomer_Upsert(table, name, email, phone) ==
    IF EmailExists(table, email)
    THEN [table EXCEPT ![CHOOSE i \in DOMAIN table : table[i].email = email] =
              [name |-> name, email |-> email, phone |-> phone]]
    ELSE Append(table, [name |-> name, email |-> email, phone |-> phone])

\* Customer(name=..., email=..., phone=...).save(): a new row, whose pk is
\* its index
SaveCustomer(table, name, email, phone) ==
    Append(table, [name |-> name, email |-> email, phone |-> phone])

----------------------------------------------------------------------------
(* CreateCustomer.mutate, the whole handler. *)

\* a variant that never looks the email up
CreateCustomerResponse_NoEmailCheck(table, name, email, phone) ==
    IF PhoneRejected(phone)
    THEN [ok |-> FALSE, exc |-> "ValidationError", error |-> "Invalid phone format"]
    ELSE [ok |-> TRUE, customer |-> Len(table) + 1, message |-> "Customer created"]

\* what the call returns or raises against the table as it stands
CreateCustomerResponse(table, name, email, phone) ==
    IF EmailExists(table, email)
    THEN [ok |-> FALSE, exc |-> "ValidationError", error |-> "Email already exists"]
    ELSE IF PhoneRejected(phone)
    THEN [ok |-> FALSE, exc |-> "ValidationError", error |-> "Invalid phone format"]
    ELSE [ok |-> TRUE, customer |-> Len(table) + 1, message |-> "Customer created"]

CreateCustomer(name, email, phone) ==
    LET r == CreateCustomerResponse(customers, name, email, phone) IN
    /\ request' = [op |-> "CreateCustomer", name |-> name, email |-> email,
                   phone |-> phone]
    /\ response' = r
    /\ customers' = IF r.ok THEN SaveCustomer(customers, name, email, phone)
                    ELSE customers
    /\ UNCHANGED <<products, orders, jobVars, procVars>>

----------------------------------------------------------------------------
(* BulkCreateCustomers.mutate, the whole handler. *)

\* str(e) of ValidationError("Email already exists"): the list of messages
EmailExistsStr == "['Email already exists']"

\* a variant that numbers the rows from 0
RowError_ZeroBased(idx, msg) == <<"Row ", idx, ": ", msg>>

\* f"Row {idx + 1}: {str(e)}", idx counted from 0 by enumerate
RowError(idx, msg) == <<"Row ", idx + 1, ": ", msg>>

\* the loop of lines 71-85 from row idx (0-based) onwards; st holds the
\* table and the two result lists
RECURSIVE BulkLoop(_, _, _)
BulkLoop(input, idx, st) ==
    IF idx >= Len(input) THEN st
    ELSE LET data == input[idx + 1] IN
         IF EmailExists(st.table, data.email)
         THEN BulkLoop(input, idx + 1,
                       [st EXCEPT !.errors = Append(@, RowError(idx, EmailExistsStr))])
         ELSE BulkLoop(input, idx + 1,
                       [st EXCEPT !.table = SaveCustomer(@, data.name, data.email,
                                                         data.phone),
                                  !.created = Append(@, Len(st.table) + 1)])

BulkCreateCustomers(input) ==
    LET st == BulkLoop(input, 0, [table |-> customers, created |-> <<>>,
                                  errors |-> <<>>]) IN
    /\ request' = [op |-> "BulkCreateCustomers", input |-> input]
    /\ response' = [ok |-> TRUE, customers |-> st.created, errors |-> st.errors]
    /\ customers' = st.table
    /\ UNCHANGED <<products, orders, jobVars, procVars>>

----------------------------------------------------------------------------
(* CreateProduct.mutate, the whole handler.  A Decimal price is counted in *)
(* whole units.                                                            *)

ProductNames == {"Pen"}
Prices == {-5, 0, 1, 2}

\* the optional stock argument: left out, or an integer
Omitted == [given |-> FALSE, value |-> 0]
Given(v) == [given |-> TRUE, value |-> v]
Stocks == {Omitted, Given(-1), Given(0)}

\* def mutate(self, info, name, price, stock=0)
DefaultStock == 0
StockOrDefault(stock) == IF stock.given THEN stock.value ELSE DefaultStock

\* a variant that lets a price of 0 through
PriceRejected_NegativeOnly(price) == price < 0

PriceRejected(price) == price <= 0

StockRejected(stock) == stock < 0

CreateProductResponse(table, price, stock) ==
    IF PriceRejected(price)
    THEN [ok |-> FALSE, exc |-> "ValidationError", error |-> "Price must be positive"]
    ELSE IF StockRejected(stock)
    THEN [ok |-> FALSE, exc |-> "ValidationError", error |-> "Stock cannot be negative"]
    ELSE [ok |-> TRUE, product |-> Len(table) + 1]

\* Product(name=name, price=price, stock=stock).save()
SaveProduct(table, name, price, stock) ==
    Append(table, [name |-> name, price |-> price, stock |-> stock])

CreateProduct(name, price, stockArg) ==
    LET stock == StockOrDefault(stockArg)
        r == CreateProductResponse(products, price, stock) IN
    /\ r.ok => Len(products) < MaxProducts
    /\ request' = [op |-> "CreateProduct", name |-> name, price |-> price,
                   stock |-> stockArg]
    /\ response' = r
    /\ products' = IF r.ok THEN SaveProduct(products, name, price, stock)
                   ELSE products
    /\ UNCHANGED <<customers, orders, jobVars, procVars>>

----------------------------------------------------------------------------
(* CreateOrder.mutate, the whole handler. *)

Range(s) == {s[i] : i \in DOMAIN s}

\* Customer.objects.get(pk=customer_id) finds a row
CustomerFound(table, customer_id) == customer_id \in DOMAIN table

\* a variant that fetches one row per entry of the list, a repeated id twice
FilterIdIn_PerEntry(table, product_ids) ==
    SelectSeq(product_ids, LAMBDA id : id \in DOMAIN table)

\* Product.objects.filter(id__in=product_ids): the pks of the rows whose id
\* is in the list, each row once
FilterIdIn(table, product_ids) ==
    SelectSeq([i \in 1..Len(table) |-> i], LAMBDA i : i \in Range(product_ids))

\* sum([p.price for p in products]) over the rows selected
RECURSIVE SumPrices(_, _)
SumPrices(table, pks) ==
    IF pks = <<>> THEN 0
    ELSE table[Head(pks)].price + SumPrices(table, Tail(pks))

\* a variant whose row carries its products from the first write on
NewOrder_WithProducts(customer_id, total, pks) ==
    [customer |-> customer_id, total_amount |-> total,
     products |-> {pks[i] : i \in DOMAIN pks}]

\* Order(customer=customer, total_amount=total): the row order.save()
\* writes, with no product attached yet
NewOrder(customer_id, total, pks) ==
    [customer |-> customer_id, total_amount |-> total, products |-> {}]

\* order.products.set(products) on the row oid
SetProducts(table, oid, pks) == [table EXCEPT ![oid].products = Range(pks)]

\* a variant that checks the products before it looks the customer up
CreateOrderResponse_ProductsFirst(custs, prods, ords, customer_id, product_ids) ==
    IF FilterIdIn(prods, product_ids) = <<>>
    THEN [ok |-> FALSE, exc |-> "ValidationError", error |-> "Invalid product IDs"]
    ELSE IF ~CustomerFound(custs, customer_id)
    THEN [ok |-> FALSE, exc |-> "DoesNotExist",
          error |-> "Customer matching query does not exist."]
    ELSE [ok |-> TRUE, order |-> Len(ords) + 1]

CreateOrderResponse(custs, prods, ords, customer_id, product_ids) ==
    IF ~CustomerFound(custs, customer_id)
    THEN [ok |-> FALSE, exc |-> "DoesNotExist",
          error |-> "Customer matching query does not exist."]
    ELSE IF FilterIdIn(prods, product_ids) = <<>>
    THEN [ok |-> FALSE, exc |-> "ValidationError", error |-> "Invalid product IDs"]
    ELSE [ok |-> TRUE, order |-> Len(ords) + 1]

CreateOrder(customer_id, product_ids) ==
    LET r == CreateOrderResponse(customers, products, orders, customer_id,
                                 product_ids)
        pks == FilterIdIn(products, product_ids)
        total == SumPrices(products, pks) IN
    /\ r.ok => Len(orders) < MaxOrders
    /\ request' = [op |-> "CreateOrder", customer_id |-> customer_id,
                   product_ids |-> product_ids]
    /\ response' = r
    /\ orders' = IF r.ok
                 THEN SetProducts(Append(orders, NewOrder(customer_id, total, pks)),
                                  Len(orders) + 1, pks)
                 ELSE orders
    /\ UNCHANGED <<customers, products, jobVars, procVars>>

\* A later change of a product's price, made outside the schema (the admin
\* site, a shell): Product.price stays a positive decimal.
UpdateProductPrice(pk, price) ==
    /\ pk \in DOMAIN products
    /\ price > 0
    /\ products[pk].price # price
    /\ products' = [products EXCEPT ![pk].price = price]
    /\ request' = [op |-> "UpdateProductPrice", pk |-> pk, price |-> price]
    /\ response' = [ok |-> TRUE]
    /\ UNCHANGED <<customers, orders, jobVars, procVars>>

\* an id that matches no row of a table
NoSuchId == MaxProducts + 1

CustomerIds == {1, NoSuchId}
ProductIdLists ==
    { <<>>, <<1>>, <<2>>, <<1, 2>>, <<1, 1>>, <<2, 1, 1>>, <<1, NoSuchId>>,
      <<NoSuchId>> }

----------------------------------------------------------------------------
(* The scheduled jobs.  A log file is the sequence of the lines appended to *)
(* it; a file not yet created is the empty sequence.  A line is the tuple   *)
(* of the pieces its f-string joins.                                        *)

HeartbeatLog == "/tmp/crm_heartbeat_log.txt"
LowStockLog == "/tmp/low_stock_updates_log.txt"
RemindersLog == "/tmp/order_reminders_log.txt"
ReportLog == "/tmp/crm_report_log.txt"

LogFiles == {HeartbeatLog, LowStockLog, RemindersLog, ReportLog}

\* datetime.now(), and its strftime under a format
Instants == {"t1", "t2"}
Strftime(now, fmt) == [at |-> now, fmt |-> fmt]

TotalLines == Len(logs[HeartbeatLog]) + Len(logs[LowStockLog])
              + Len(logs[RemindersLog]) + Len(logs[ReportLog])

\* open(path, "a") and the writes made to it
AppendLines(path, lines) == [logs EXCEPT ![path] = @ \o lines]

\* how requests.post(...) ends: a response of any status, or an exception
\* (connection refused, timeout)
PostOutcomes == {"200", "400", "raises"}

\* a variant that takes an error status for a failure, as raise_for_status
\* would
HeartbeatStatus_ByHttpStatus(post) ==
    IF post = "200" THEN "CRM is alive" ELSE "CRM unreachable"

\* try: requests.post(...); status = "CRM is alive"
\* except Exception: status = "CRM unreachable"
HeartbeatStatus(post) ==
    IF post = "raises" THEN "CRM unreachable" ELSE "CRM is alive"

\* a variant with no try/except round the post
HeartbeatRaises_NoHandler(post) == post = "raises"

\* whether an exception of the post escapes log_crm_heartbeat
HeartbeatRaises(post) == FALSE

log_crm_heartbeat(now, post) ==
    LET timestamp == Strftime(now, "%d/%m/%Y-%H:%M:%S") IN
    /\ TotalLines < MaxLines
    /\ job' = [name |-> "log_crm_heartbeat", post |-> post,
               failed |-> (post = "raises"), raised |-> HeartbeatRaises(post)]
    /\ logs' = IF HeartbeatRaises(post) THEN logs
               ELSE AppendLines(HeartbeatLog,
                                <<<<timestamp, " ", HeartbeatStatus(post), "\n">>>>)
    /\ UNCHANGED <<storeVars, request, response, procVars>>

\* what client.execute(...) gives a job: an exception (transport error,
\* a query the server's schema rejects), or the data of the response
Raises == [raised |-> TRUE, data |-> <<>>]
Returns(data) == [raised |-> FALSE, data |-> data]

LowStockResults ==
    { Raises, Returns(<<>>), Returns(<<[name |-> "Pen", stock |-> 15]>>),
      Returns(<<[name |-> "Pen", stock |-> 15], [name |-> "Ink", stock |-> 11]>>) }

\* for p in result["updateLowStockProducts"]["products"]: f.write(...)
LowStockLines(ts, data) ==
    [i \in 1..Len(data) |-> <<ts, " - ", data[i].name, " -> ", data[i].stock, "\n">>]

update_low_stock(now, result) ==
    LET ts == Strftime(now, "%Y-%m-%d %H:%M:%S") IN
    /\ TotalLines + Len(result.data) <= MaxLines
    /\ job' = [name |-> "update_low_stock", failed |-> result.raised,
               raised |-> result.raised]
    /\ logs' = IF result.raised THEN logs
               ELSE AppendLines(LowStockLog, LowStockLines(ts, result.data))
    /\ UNCHANGED <<storeVars, request, response, procVars>>

ReminderResults ==
    { Raises, Returns(<<>>), Returns(<<[id |-> 1, email |-> "a@x.io"]>>) }

\* for order in result.get("orders", []): f.write(...)
ReminderLines(ts, data) ==
    [i \in 1..Len(data) |->
        <<ts, " - Order ", data[i].id, " Customer ", data[i].email, "\n">>]

send_order_reminders(now, result) ==
    LET ts == Strftime(now, "%Y-%m-%d %H:%M:%S") IN
    /\ TotalLines + Len(result.data) <= MaxLines
    /\ job' = [name |-> "send_order_reminders", failed |-> result.raised,
               raised |-> result.raised]
    /\ logs' = IF result.raised THEN logs
               ELSE AppendLines(RemindersLog, ReminderLines(ts, result.data))
    /\ UNCHANGED <<storeVars, request, response, procVars>>

\* Order.objects.aggregate(Sum('total_amount'))['total_amount__sum']: None
\* over no rows
RECURSIVE SumTotals(_)
SumTotals(table) ==
    IF table = <<>> THEN 0 ELSE Head(table).total_amount + SumTotals(Tail(table))

AggregateSum(table) ==
    IF table = <<>> THEN [none |-> TRUE, value |-> 0]
    ELSE [none |-> FALSE, value |-> SumTotals(table)]

\* x or 0
OrZero(x) == IF x.none \/ x.value = 0 THEN 0 ELSE x.value

ReportLine(timestamp, custs, ords) ==
    <<timestamp, " - Report: ", Len(custs), " customers, ", Len(ords), " orders, ",
      OrZero(AggregateSum(ords)), " revenue\n">>

\* dbFails: a query of the report raises (the database is unreachable)
generate_crm_report(now, dbFails) ==
    LET timestamp == Strftime(now, "%Y-%m-%d %H:%M:%S") IN
    /\ TotalLines < MaxLines
    /\ job' = [name |-> "generate_crm_report", failed |-> dbFails,
               raised |-> dbFails]
    /\ logs' = IF dbFails THEN logs
               ELSE AppendLines(ReportLog, <<ReportLine(timestamp, customers, orders)>>)
    /\ UNCHANGED <<storeVars, request, response, procVars>>

----------------------------------------------------------------------------
(* The mutations as concurrent requests.  Each request runs its handler one *)
(* database access at a time; pc[p] names the access request p makes next,  *)
(* local[p] holds the handler's arguments and local variables, and, once    *)
(* pc[p] = "done", what it returned or raised.                              *)

Procs == {"r1", "r2"}

\* Customer.email carries no unique constraint: the check of the handlers is
\* all that keeps emails apart
EmailUnique == FALSE

\* every ORM statement commits by itself: no transaction spans a request
Autocommit == TRUE

Goto(p, label, loc) ==
    /\ pc' = [pc EXCEPT ![p] = label]
    /\ local' = [local EXCEPT ![p] = loc]

Finish(p, resp) ==
    Goto(p, "done", [local[p] EXCEPT !.response = resp])

StartCreateCustomer(p, name, email, phone) ==
    /\ pc[p] = "idle"
    /\ Goto(p, "cc_exists", [op |-> "CreateCustomer", name |-> name,
                             email |-> email, phone |-> phone,
                             response |-> NoRequest])
    /\ UNCHANGED <<storeVars, request, response, jobVars>>

\* lines 49-53: the existence query, then the check of the phone
CcExists(p) ==
    LET a == local[p]
        r == CreateCustomerResponse(customers, a.name, a.email, a.phone) IN
    /\ pc[p] = "cc_exists"
    /\ IF r.ok THEN Goto(p, "cc_save", a) ELSE Finish(p, r)
    /\ UNCHANGED <<storeVars, request, response, jobVars>>

IntegrityError ==
    [ok |-> FALSE, exc |-> "IntegrityError", error |-> "UNIQUE constraint failed"]

\* lines 55-57: the insert, which looks at no other row
CcSave(p) ==
    LET a == local[p] IN
    /\ pc[p] = "cc_save"
    /\ IF EmailUnique /\ EmailExists(customers, a.email)
       THEN /\ Finish(p, IntegrityError)
            /\ UNCHANGED customers
       ELSE /\ customers' = SaveCustomer(customers, a.name, a.email, a.phone)
            /\ Finish(p, [ok |-> TRUE, customer |-> Len(customers) + 1,
                          message |-> "Customer created"])
    /\ UNCHANGED <<products, orders, request, response, jobVars>>

StartBulk(p, input) ==
    /\ pc[p] = "idle"
    /\ Goto(p, "bulk_exists", [op |-> "BulkCreateCustomers", input |-> input,
                               idx |-> 0, created |-> <<>>, errors |-> <<>>,
                               response |-> NoRequest])
    /\ UNCHANGED <<storeVars, request, response, jobVars>>

\* line 73 for row idx, or line 87 once the rows are used up
BulkExists(p) ==
    LET a == local[p] IN
    /\ pc[p] = "bulk_exists"
    /\ IF a.idx >= Len(a.input)
       THEN Finish(p, [ok |-> TRUE, customers |-> a.created, errors |-> a.errors])
       ELSE IF EmailExists(customers, a.input[a.idx + 1].email)
       THEN Goto(p, "bulk_exists",
                 [a EXCEPT !.errors = Append(@, RowError(a.idx, EmailExistsStr)),
                           !.idx = @ + 1])
       ELSE Goto(p, "bulk_save", a)
    /\ UNCHANGED <<storeVars, request, response, jobVars>>

\* lines 76-82 for row idx; an exception of the insert is the row's error
BulkSave(p) ==
    LET a == local[p]
        data == a.input[a.idx + 1] IN
    /\ pc[p] = "bulk_save"
    /\ IF EmailUnique /\ EmailExists(customers, data.email)
       THEN /\ Goto(p, "bulk_exists",
                    [a EXCEPT !.errors = Append(@, RowError(a.idx, IntegrityError.error)),
                              !.idx = @ + 1])
            /\ UNCHANGED customers
       ELSE /\ customers' = SaveCustomer(customers, data.name, data.email, data.phone)
            /\ Goto(p, "bulk_exists",
                    [a EXCEPT !.created = Append(@, Len(customers) + 1),
                              !.idx = @ + 1])
    /\ UNCHANGED <<products, orders, request, response, jobVars>>

StartCreateOrder(p, customer_id, product_ids) ==
    /\ pc[p] = "idle"
    /\ Goto(p, "co_get", [op |-> "CreateOrder", customer_id |-> customer_id,
                          product_ids |-> product_ids, pks |-> <<>>, total |-> 0,
                          order |-> 0, response |-> NoRequest])
    /\ UNCHANGED <<storeVars, request, response, jobVars>>

\* line 117
CoGet(p) ==
    LET a == local[p] IN
    /\ pc[p] = "co_get"
    /\ IF CustomerFound(customers, a.customer_id)
       THEN Goto(p, "co_exists", a)
       ELSE Finish(p, CreateOrderResponse(customers, products, orders,
                                          a.customer_id, a.product_ids))
    /\ UNCHANGED <<storeVars, request, response, jobVars>>

\* lines 118-121: products.exists()
CoExists(p) ==
    LET a == local[p]
        r == CreateOrderResponse(customers, products, orders, a.customer_id,
                                 a.product_ids) IN
    /\ pc[p] = "co_exists"
    /\ IF FilterIdIn(products, a.product_ids) = <<>>
       THEN Finish(p, r)
       ELSE Goto(p, "co_sum", a)
    /\ UNCHANGED <<storeVars, request, response, jobVars>>

\* line 123: the query set is fetched and its prices are summed
CoSum(p) ==
    LET a == local[p]
        pks == FilterIdIn(products, a.product_ids) IN
    /\ pc[p] = "co_sum"
    /\ Goto(p, "co_save", [a EXCEPT !.pks = pks, !.total = SumPrices(products, pks)])
    /\ UNCHANGED <<storeVars, request, response, jobVars>>

\* lines 125-126: order.save()
CoSave(p) ==
    LET a == local[p] IN
    /\ pc[p] = "co_save"
    /\ orders' = IF Autocommit
                 THEN Append(orders, NewOrder(a.customer_id, a.total, a.pks))
                 ELSE orders
    /\ Goto(p, "co_set", [a EXCEPT !.order = Len(orders) + 1])
    /\ UNCHANGED <<customers, products, request, response, jobVars>>

\* lines 127-128: order.products.set(products)
CoSet(p) ==
    LET a == local[p]
        saved == IF Autocommit THEN orders
                 ELSE Append(orders, NewOrder(a.customer_id, a.total, a.pks))
        oid == IF Autocommit THEN a.order ELSE Len(saved) IN
    /\ pc[p] = "co_set"
    /\ orders' = SetProducts(saved, oid, a.pks)
    /\ Finish(p, [ok |-> TRUE, order |-> oid])
    /\ UNCHANGED <<customers, products, request, response, jobVars>>

ConcPhones == {None, PhoneAbc}
ConcBulkInputs == SeqsUpTo(BulkRows, 2)
ConcIdLists == {<<1, 2>>, <<2, 2>>, <<NoSuchId>>}

----------------------------------------------------------------------------
(* The specifications. *)

NoFiles == [f \in LogFiles |-> <<>>]
NoProcs == [p \in {} |-> <<>>]

Init ==
    /\ customers = <<>>
    /\ products = <<>>
    /\ orders = <<>>
    /\ request = NoRequest
    /\ response = NoRequest
    /\ logs = NoFiles
    /\ job = NoJob
    /\ pc = NoProcs
    /\ local = NoProcs

\* The customer mutations, one call at a time.
Next ==
    \/ \E name \in Names, email \in Emails, phone \in Phones :
           CreateCustomer(name, email, phone)
    \/ \E input \in SeqsUpTo(BulkRows, MaxBulk) : BulkCreateCustomers(input)

Spec == Init /\ [][Next]_vars

\* The product and order mutations, one call at a time, against a store
\* that holds one customer already.
OneCustomer == SaveCustomer(<<>>, "Ann", "a@x.io", None)

InitOrders ==
    /\ customers = OneCustomer
    /\ products = <<>>
    /\ orders = <<>>
    /\ request = NoRequest
    /\ response = NoRequest
    /\ logs = NoFiles
    /\ job = NoJob
    /\ pc = NoProcs
    /\ local = NoProcs

NextOrders ==
    \/ \E name \in ProductNames, price \in Prices, stock \in Stocks :
           CreateProduct(name, price, stock)
    \/ \E customer_id \in CustomerIds, product_ids \in ProductIdLists :
           CreateOrder(customer_id, product_ids)
    \/ \E pk \in 1..MaxProducts, price \in Prices : UpdateProductPrice(pk, price)

SpecOrders == InitOrders /\ [][NextOrders]_vars

\* The scheduled jobs, one run at a time, against a store that holds one
\* customer and either nothing else or one product and one order for it.
OneProduct == SaveProduct(<<>>, "Pen", 2, 0)

OneOrder ==
    SetProducts(<<NewOrder(1, SumPrices(OneProduct, <<1>>), <<1>>)>>, 1, <<1>>)

InitJobs ==
    /\ customers = OneCustomer
    /\ \/ products = <<>> /\ orders = <<>>
       \/ products = OneProduct /\ orders = OneOrder
    /\ request = NoRequest
    /\ response = NoRequest
    /\ logs = NoFiles
    /\ job = NoJob
    /\ pc = NoProcs
    /\ local = NoProcs

NextJobs ==
    \/ \E now \in Instants, post \in PostOutcomes : log_crm_heartbeat(now, post)
    \/ \E now \in Instants, result \in LowStockResults : update_low_stock(now, result)
    \/ \E now \in Instants, result \in ReminderResults :
           send_order_reminders(now, result)
    \/ \E now \in Instants, dbFails \in BOOLEAN : generate_crm_report(now, dbFails)

SpecJobs == InitJobs /\ [][NextJobs]_vars

\* Two requests at once, and the report beside them, against a store that
\* holds one customer and two products.
TwoProducts == SaveProduct(SaveProduct(<<>>, "Pen", 1, 0), "Pen", 2, 0)

InitConc ==
    /\ customers = OneCustomer
    /\ products = TwoProducts
    /\ orders = <<>>
    /\ request = NoRequest
    /\ response = NoRequest
    /\ logs = NoFiles
    /\ job = NoJob
    /\ pc = [p \in Procs |-> "idle"]
    /\ local = [p \in Procs |-> NoRequest]

NextConc ==
    \/ \E p \in Procs, name \in Names, email \in Emails, phone \in ConcPhones :
           StartCreateCustomer(p, name, email, phone)
    \/ \E p \in Procs : CcExists(p)
    \/ \E p \in Procs : CcSave(p)
    \/ \E p \in Procs, input \in ConcBulkInputs : StartBulk(p, input)
    \/ \E p \in Procs : BulkExists(p)
    \/ \E p \in Procs : BulkSave(p)
    \/ \E p \in Procs, customer_id \in CustomerIds, product_ids \in ConcIdLists :
           StartCreateOrder(p, customer_id, product_ids)
    \/ \E p \in Procs : CoGet(p)
    \/ \E p \in Procs : CoExists(p)
    \/ \E p \in Procs : CoSum(p)
    \/ \E p \in Procs : CoSave(p)
    \/ \E p \in Procs : CoSet(p)
    \/ generate_crm_report("t1", FALSE)

SpecConc == InitConc /\ [][NextConc]_vars

----------------------------------------------------------------------------
(* What the claims speak of, stated apart from the handlers' own operators. *)

StoredEmails(table) == {table[i].email : i \in DOMAIN table}

RowsWithEmail(table, email) == {i \in DOMAIN table : table[i].email = email}

DigitChars == {"0", "1", "2", "3", "4", "5", "6", "7", "8", "9"}

\* '+' followed by 10 to 15 digits
PlusDigits(s) ==
    /\ Len(s) \in 11..16
    /\ Head(s) = "+"
    /\ \A i \in 2..Len(s) : s[i] \in DigitChars

\* NNN-NNN-NNNN
Dashed(s) ==
    /\ Len(s) = 12
    /\ \A i \in 1..12 : IF i \in {4, 8} THEN s[i] = "-" ELSE s[i] \in DigitChars

WellFormedPhone(s) == PlusDigits(s) \/ Dashed(s)

\* no phone: the argument left out, or the empty string
PhoneAbsent(phone) == ~phone.given \/ phone.text = <<>>

----------------------------------------------------------------------------
(* C1 *)

C1_Post ==
    LET r == request' IN
    /\ r.email \in StoredEmails(customers) =>
           /\ ~response'.ok
           /\ customers' = customers
    /\ (/\ r.email \notin StoredEmails(customers)
        /\ (PhoneAbsent(r.phone) \/ WellFormedPhone(r.phone.text))) =>
           /\ response'.ok
           /\ customers' = Append(customers, [name |-> r.name, email |-> r.email,
                                              phone |-> r.phone])

NoSharedEmail ==
    \A i, j \in DOMAIN customers : customers[i].email = customers[j].email => i = j

\* C1: a CreateCustomer call whose email is already stored fails and leaves
\* the Customer table as it was; a call with a new email and an absent or
\* well-formed phone succeeds and adds exactly one row carrying the given
\* name, email and phone; and so, calls running one at a time, no two rows
\* ever share an email.
C1_CreateCustomerContract ==
    /\ [][request'.op = "CreateCustomer" => C1_Post]_vars
    /\ []NoSharedEmail

\* a duplicate email was refused while its first holder, created with a
\* well-formed phone, is in the table
C1_Witness ==
    /\ request.op = "CreateCustomer"
    /\ ~response.ok
    /\ response.error = "Email already exists"
    /\ \E i \in DOMAIN customers :
           /\ customers[i].email = request.email
           /\ customers[i].name = "Ann"
           /\ customers[i].phone = PhoneIntl

----------------------------------------------------------------------------
(* C2 *)

\* C2: every stored customer's phone is absent or matches one of the two
\* accepted formats, whichever of CreateCustomer and BulkCreateCustomers
\* stored it.
C2_StoredPhonesWellFormed ==
    \A i \in DOMAIN customers :
        PhoneAbsent(customers[i].phone) \/ WellFormedPhone(customers[i].phone.text)

----------------------------------------------------------------------------
(* C3 *)

\* C3: BulkCreateCustomers gives every row of its input one outcome, in
\* input order: row k is the error "Row k: ..." exactly when its email is
\* held by a customer stored before the call or by an earlier saved row of
\* the same call, and is saved otherwise, so the two result lists together
\* are as long as the input.
C3_BulkRowOutcomes ==
    request.op = "BulkCreateCustomers" =>
        LET input == request.input
            n == Len(input)
            created == response.customers
            errors == response.errors
            before == SubSeq(customers, 1, Len(customers) - Len(created))
            ErrRows == {errors[j][2] : j \in DOMAIN errors}
            Held(k) ==
                input[k].email \in
                    StoredEmails(before) \cup
                    {input[j].email : j \in {i \in 1..(k - 1) : i \notin ErrRows}}
            okRows == SelectSeq([k \in 1..n |-> k], LAMBDA k : k \notin ErrRows)
        IN  /\ Len(created) + Len(errors) = n
            /\ \A j \in DOMAIN errors :
                   /\ errors[j][1] = "Row "
                   /\ errors[j][2] \in 1..n
                   /\ errors[j][3] = ": "
            /\ \A i, j \in DOMAIN errors : i < j => errors[i][2] < errors[j][2]
            /\ \A k \in 1..n : (k \in ErrRows) <=> Held(k)
            /\ \A m \in DOMAIN created :
                   /\ created[m] = Len(before) + m
                   /\ customers[created[m]] = input[okRows[m]]

\* three rows of which the second repeats the first one's email: two
\* customers created, one error, for row 2
C3_Witness ==
    /\ request.op = "BulkCreateCustomers"
    /\ Len(request.input) = 3
    /\ request.input[1].email = request.input[2].email
    /\ Len(response.customers) = 2
    /\ Len(response.errors) = 1
    /\ response.errors[1][2] = 2

----------------------------------------------------------------------------
(* C4 *)

C4_Post ==
    LET r == request'
        stock == IF r.stock.given THEN r.stock.value ELSE 0 IN
    IF r.price <= 0 \/ stock < 0
    THEN /\ ~response'.ok
         /\ products' = products
         /\ r.price <= 0 => response'.error = "Price must be positive"
    ELSE /\ response'.ok
         /\ products' = Append(products, [name |-> r.name, price |-> r.price,
                                          stock |-> stock])

AllProductsValid ==
    \A i \in DOMAIN products : products[i].price > 0 /\ products[i].stock >= 0

\* C4: CreateProduct fails and leaves the Product table as it was when
\* price <= 0 or stock < 0, the price being checked first; otherwise it adds
\* exactly one row with the given name, price and stock, stock being 0 when
\* left out; so every stored product has price > 0 and stock >= 0.
C4_CreateProductContract ==
    /\ [][request'.op = "CreateProduct" => C4_Post]_vars
    /\ []AllProductsValid

\* a product was created with its stock left out and is stored with stock 0
C4_Witness ==
    /\ request.op = "CreateProduct"
    /\ ~request.stock.given
    /\ response.ok
    /\ products[response.product].stock = 0

----------------------------------------------------------------------------
(* C5 *)

RECURSIVE SumOver(_, _)
SumOver(S, price) ==
    IF S = {} THEN 0
    ELSE LET x == CHOOSE y \in S : TRUE IN price[x] + SumOver(S \ {x}, price)

C5_Post ==
    LET r == request'
        ids == {r.product_ids[i] : i \in DOMAIN r.product_ids} \cap DOMAIN products
        priceThen == [i \in DOMAIN products |-> products[i].price]
        new == orders'[Len(orders')] IN
    response'.ok =>
        /\ orders' = Append(orders, new)
        /\ new.total_amount = SumOver(ids, priceThen)
        /\ new.products = ids

TotalsKept ==
    \A o \in DOMAIN orders :
        /\ o \in DOMAIN orders'
        /\ orders'[o].total_amount = orders[o].total_amount

\* C5: a successful CreateOrder stores an order whose total_amount is the
\* sum of the prices, as they stand at the call, of the distinct existing
\* products whose ids occur in product_ids, and whose attached products are
\* exactly those; and no later step, a price change included, changes a
\* stored total_amount.
C5_OrderTotal ==
    /\ [][request'.op = "CreateOrder" => C5_Post]_vars
    /\ [][TotalsKept]_vars

\* an order made from a list that names a product twice and another once,
\* one of whose prices has since changed: its total is no longer the sum of
\* its products' prices
C5_Witness ==
    /\ request.op = "UpdateProductPrice"
    /\ \E o \in DOMAIN orders :
           /\ orders[o].products = {1, 2}
           /\ orders[o].total_amount = 3
           /\ products[1].price + products[2].price # 3

----------------------------------------------------------------------------
(* C6 *)

C6_Post ==
    LET r == request'
        noCustomer == r.customer_id \notin DOMAIN customers
        noProduct == \A i \in DOMAIN r.product_ids :
                         r.product_ids[i] \notin DOMAIN products IN
    /\ (noCustomer \/ noProduct) =>
           /\ ~response'.ok
           /\ orders' = orders
    /\ noCustomer =>
           /\ response'.exc = "DoesNotExist"
           /\ response'.error # "Invalid product IDs"
    /\ (~noCustomer /\ noProduct) => response'.error = "Invalid product IDs"

\* C6: CreateOrder fails and stores nothing when the customer id matches
\* no customer or no id of product_ids matches a product (the empty list
\* included); the customer is looked up first, so with both at fault the
\* error is the lookup's and not 'Invalid product IDs'.
C6_CreateOrderRejects == [][request'.op = "CreateOrder" => C6_Post]_vars

\* a call at fault on both counts, answered with the lookup error
C6_Witness ==
    /\ request.op = "CreateOrder"
    /\ request.customer_id \notin DOMAIN customers
    /\ request.product_ids = <<>>
    /\ ~response.ok
    /\ response.exc = "DoesNotExist"

----------------------------------------------------------------------------
(* C7 *)

LogOf(name) ==
    CASE name = "log_crm_heartbeat" -> HeartbeatLog
      [] name = "update_low_stock" -> LowStockLog
      [] name = "send_order_reminders" -> RemindersLog
      [] name = "generate_crm_report" -> ReportLog

----------------------------------------------------------------------------
(* C8 *)

\* C8: each run of log_crm_heartbeat appends exactly one line to
\* /tmp/crm_heartbeat_log.txt, the earlier lines staying in place before it;
\* the line says 'CRM is alive' exactly when the POST raised no exception,
\* whatever the status of the response, and 'CRM unreachable' exactly when
\* it raised one.
C8_HeartbeatAppendsOneLine ==
    [][job'.name = "log_crm_heartbeat" =>
          LET status == IF job'.post = "raises" THEN "CRM unreachable"
                        ELSE "CRM is alive" IN
          \E now \in Instants :
              logs' = [logs EXCEPT ![HeartbeatLog] =
                          Append(@, <<Strftime(now, "%d/%m/%Y-%H:%M:%S"), " ",
                                      status, "\n">>)]]_vars

\* a failed POST and then one answered with status 400: two lines, the
\* second 'CRM is alive'
C8_Witness ==
    /\ job.name = "log_crm_heartbeat"
    /\ job.post = "400"
    /\ Len(logs[HeartbeatLog]) = 2
    /\ logs[HeartbeatLog][1][3] = "CRM unreachable"
    /\ logs[HeartbeatLog][2][3] = "CRM is alive"

----------------------------------------------------------------------------
(* C9 *)

\* request p is over and has stored a customer with the email
Created(p, email) ==
    /\ pc[p] = "done"
    /\ \/ /\ local[p].op = "CreateCustomer"
          /\ local[p].email = email
          /\ local[p].response.ok
       \/ /\ local[p].op = "BulkCreateCustomers"
          /\ \E k \in DOMAIN local[p].input :
                 /\ local[p].input[k].email = email
                 /\ k \notin {local[p].errors[j][2] : j \in DOMAIN local[p].errors}

C9_SaveStep ==
    \A p \in Procs :
        /\ (pc[p] = "cc_save" /\ pc'[p] # pc[p]) =>
               /\ local'[p].response.ok
               /\ customers' = Append(customers,
                                      [name |-> local[p].name, email |-> local[p].email,
                                       phone |-> local[p].phone])
        /\ (pc[p] = "bulk_save" /\ local'[p] # local[p]) =>
               /\ local'[p].errors = local[p].errors
               /\ customers' = Append(customers, local[p].input[local[p].idx + 1])

C9_BothStored ==
    \A p, q \in Procs, email \in Emails :
        (p # q /\ Created(p, email) /\ Created(q, email)) =>
            Cardinality(RowsWithEmail(customers, email)) >= 2

\* C9: a request that has passed its existence check stores its customer
\* whatever the table holds by then; so two requests with the same new
\* email whose checks both ran before either save both succeed, and the
\* table then holds two customers with that email.
C9_DuplicateEmailRace == [][C9_SaveStep]_vars /\ []C9_BothStored

\* both requests are over, both stored a customer with the email b@x.io,
\* which no customer had at the start, and one of them is a CreateCustomer
C9_Witness ==
    /\ Created("r1", "b@x.io")
    /\ Created("r2", "b@x.io")
    /\ local["r1"].op = "CreateCustomer"
    /\ Cardinality(RowsWithEmail(customers, "b@x.io")) = 2

----------------------------------------------------------------------------
(* C10 *)

\* C10: between order.save() and order.products.set(...) the order is in
\* the table with a total_amount above zero and no product attached, a
\* state other requests and the report can read; there total_amount is not
\* the sum of the attached products' prices.
C10_OrderStoredBeforeProducts ==
    \A p \in Procs :
        pc[p] = "co_set" =>
            /\ local[p].order \in DOMAIN orders
            /\ orders[local[p].order].total_amount > 0
            /\ orders[local[p].order].products = {}
            /\ orders[local[p].order].total_amount #
                   SumOver(orders[local[p].order].products,
                           [i \in DOMAIN products |-> products[i].price])

\* the report has just counted an order, with its revenue, that has no
\* product attached yet
C10_Witness ==
    /\ job.name = "generate_crm_report"
    /\ Len(logs[ReportLog]) > 0
    /\ \E p \in Procs :
           /\ pc[p] = "co_set"
           /\ orders[local[p].order].products = {}
           /\ logs[ReportLog][Len(logs[ReportLog])][5] = Len(orders)
           /\ logs[ReportLog][Len(logs[ReportLog])][7] >= 3

====
